---------------------------- MODULE Spec2Model ----------------------------
(***************************************************************************)
(* String interning of the msgpack encoder and decoder (intern.go).        *)
(*                                                                         *)
(* An Encoder keeps e.dict, a map from string to index; a Decoder keeps    *)
(* d.dict, a slice of strings.  The encoder writes bytes to the wire, the  *)
(* decoder reads them at its own pace.  A string is a sequence of bytes    *)
(* (0..255), the wire is a sequence of bytes.                              *)
(***************************************************************************)
EXTENDS Integers, Sequences, FiniteSets, TLC

(***************************************************************************)
(* Program constants.                                                      *)
(***************************************************************************)
minInternedStringLen == 3
maxDictLen == 65535
MaxUint8 == 255
MaxUint16 == 65535
\* byte(internedStringExtID), internedStringExtID = int8(math.MinInt8)
internedStringExtID == 128
\* msgpcode
Nil == 192
FixExt1 == 212
FixExt2 == 213
FixExt4 == 214
Str8 == 217
Str16 == 218
Str32 == 219
Bin8 == 196
Bin16 == 197
Bin32 == 198
FixedStrLow == 160
FixedStrHigh == 191
FixedStrMask == 31

(***************************************************************************)
(* Bounds of the model.                                                    *)
(***************************************************************************)
\* how many values one encoder is offered
MaxOps == 4

(***************************************************************************)
(* Go's int.  Its width is the build's: 32 bits (GOARCH=386, arm, ...) or  *)
(* 64 bits.  Values up to 2^32 and beyond occur (a 4-byte index), so an    *)
(* int is kept as two limbs: the value is hi * 65536 + lo, 0 <= lo < 65536,*)
(* hi negative for a negative int.                                         *)
(***************************************************************************)
IntSizes == {32, 64}

Limb == 256 * 256

IntOf(n) == [hi |-> n \div Limb, lo |-> n % Limb]

IntLT(a, b) == a.hi < b.hi \/ (a.hi = b.hi /\ a.lo < b.lo)

IntLE(a, b) == a = b \/ IntLT(a, b)

\* the value of an int known to lie in 0..2^31-1
NatOf(a) == a.hi * Limb + a.lo

\* int(n) of a uint32 n given by its big-endian bytes: on a 32-bit build the
\* conversion keeps the low 32 bits and reads them as signed
IntOfUint32(b, bits) ==
    LET hi == b[1] * 256 + b[2]
        lo == b[3] * 256 + b[4]
    IN  IF bits = 32 /\ hi >= 32768 THEN [hi |-> hi - Limb, lo |-> lo]
                                    ELSE [hi |-> hi, lo |-> lo]

(***************************************************************************)
(* Filler strings.  Filler(i) is the 3-byte string "#" followed by i as a  *)
(* big-endian uint16.  A dictionary that a run has filled with the first n *)
(* filler strings, in order, is kept as the number n instead of n entries. *)
(***************************************************************************)
Filler(i) == <<35, i \div 256, i % 256>>

IsFiller(s) == Len(s) = 3 /\ s[1] = 35

FillerIdx(s) == s[2] * 256 + s[3]

(***************************************************************************)
(* e.dict, map[string]int: the entries Filler(i) -> i for i < fill, and    *)
(* the entries of the function m.                                          *)
(***************************************************************************)
EmptyMap == [x \in {} |-> 0]

EDictOf(n) == [fill |-> n, m |-> EmptyMap]

\* a key of m that is also one of the first fill filler strings is one
\* entry of the map, with the index m gives it
InFill(dict, s) == IsFiller(s) /\ FillerIdx(s) < dict.fill

EDictLen(dict) ==
    dict.fill + Cardinality({x \in DOMAIN dict.m : ~InFill(dict, x)})

EDictHas(dict, s) == InFill(dict, s) \/ s \in DOMAIN dict.m

EDictGet(dict, s) ==
    IF s \in DOMAIN dict.m THEN dict.m[s] ELSE FillerIdx(s)

EDictPut(dict, s, idx) ==
    [dict EXCEPT !.m = [x \in DOMAIN dict.m \cup {s} |->
                           IF x = s THEN idx ELSE dict.m[x]]]

(***************************************************************************)
(* d.dict, []string: positions 0..fill-1 hold Filler(0..fill-1), the       *)
(* positions from fill on hold the elements of tail.                       *)
(***************************************************************************)
DDictOf(n) == [fill |-> n, tail |-> <<>>]

DDictLen(dict) == dict.fill + Len(dict.tail)

DDictAt(dict, i) ==
    IF i < dict.fill THEN Filler(i) ELSE dict.tail[i - dict.fill + 1]

DDictAppend(dict, s) == [dict EXCEPT !.tail = Append(@, s)]


(***************************************************************************)
(* The encoder's writer.  A write puts its bytes on the wire, or, when the *)
(* underlying io.Writer fails (wok = FALSE), puts nothing and returns the  *)
(* writer's error.  A result is [out |-> bytes written, err |-> error].    *)
(***************************************************************************)
Ok == "nil"

write(b, wok) == IF wok THEN [out |-> b, err |-> Ok]
                        ELSE [out |-> <<>>, err |-> "WriteError"]

\* two writes one after the other: the second happens if the first succeeded
Then(r1, r2) == IF r1.err # Ok THEN r1
                ELSE [out |-> r1.out \o r2.out, err |-> r2.err]

writeCode(c, wok) == write(<<c>>, wok)

write1(code, n, wok) == write(<<code, n>>, wok)

write2(code, n, wok) == write(<<code, n \div 256, n % 256>>, wok)

\* n is a uint32 given by its two 16-bit halves
write4(code, n, wok) ==
    write(<<code, n.hi \div 256, n.hi % 256, n.lo \div 256, n.lo % 256>>, wok)

writeString(s, wok) == write(s, wok)

\* uint8(idx), uint16(idx), uint32(idx) of an int idx: the low bits
Uint8Of(idx) == idx.lo % 256

Uint16Of(idx) == idx.lo

Uint32Of(idx) == [hi |-> idx.hi % Limb, lo |-> idx.lo]

MaxUint32 == [hi |-> Limb - 1, lo |-> Limb - 1]

\* uint64(idx) <= math.MaxUint32: a negative idx converts to a value >= 2^63
Uint64LEMaxUint32(idx) == idx.hi >= 0 /\ IntLE(idx, MaxUint32)

encodeStringLen(l, wok) ==
    IF l < 32 THEN writeCode(FixedStrLow + l, wok)
    ELSE IF l < 256 THEN write1(Str8, l, wok)
    ELSE IF l <= MaxUint16 THEN write2(Str16, l, wok)
    ELSE write4(Str32, Uint32Of(IntOf(l)), wok)

encodeNormalString(s, wok) ==
    Then(encodeStringLen(Len(s), wok), writeString(s, wok))

\* mutant: the 1-byte envelope stops below 255
encodeInternedStringIndex_Below(idx, wok) ==
    IF IntLT(idx, IntOf(MaxUint8))
    THEN Then(writeCode(FixExt1, wok),
              write1(internedStringExtID, Uint8Of(idx), wok))
    ELSE IF IntLE(idx, IntOf(MaxUint16))
    THEN Then(writeCode(FixExt2, wok),
              write2(internedStringExtID, Uint16Of(idx), wok))
    ELSE IF Uint64LEMaxUint32(idx)
    THEN Then(writeCode(FixExt4, wok),
              write4(internedStringExtID, Uint32Of(idx), wok))
    ELSE [out |-> <<>>, err |-> "IndexOverflow"]

encodeInternedStringIndex(idx, wok) ==
    IF IntLE(idx, IntOf(MaxUint8))
    THEN Then(writeCode(FixExt1, wok),
              write1(internedStringExtID, Uint8Of(idx), wok))
    ELSE IF IntLE(idx, IntOf(MaxUint16))
    THEN Then(writeCode(FixExt2, wok),
              write2(internedStringExtID, Uint16Of(idx), wok))
    ELSE IF Uint64LEMaxUint32(idx)
    THEN Then(writeCode(FixExt4, wok),
              write4(internedStringExtID, Uint32Of(idx), wok))
    ELSE [out |-> <<>>, err |-> "IndexOverflow"]

\* the result is [dict |-> e.dict after the call, out, err]
WithDict(dict, r) == [dict |-> dict, out |-> r.out, err |-> r.err]

\* mutant: strings one byte shorter than minInternedStringLen are interned
encodeInternedString_ShortToo(dict, s, intern, wok) ==
    IF Len(s) >= minInternedStringLen - 1
    THEN IF EDictHas(dict, s)
         THEN WithDict(dict,
                  encodeInternedStringIndex(IntOf(EDictGet(dict, s)), wok))
         ELSE IF intern /\ EDictLen(dict) < maxDictLen
              THEN WithDict(EDictPut(dict, s, EDictLen(dict)),
                            encodeNormalString(s, wok))
              ELSE WithDict(dict, encodeNormalString(s, wok))
    ELSE WithDict(dict, encodeNormalString(s, wok))

\* mutant: the dictionary takes one entry more than maxDictLen
encodeInternedString_CapPlusOne(dict, s, intern, wok) ==
    IF Len(s) >= minInternedStringLen
    THEN IF EDictHas(dict, s)
         THEN WithDict(dict,
                  encodeInternedStringIndex(IntOf(EDictGet(dict, s)), wok))
         ELSE IF intern /\ EDictLen(dict) <= maxDictLen
              THEN WithDict(EDictPut(dict, s, EDictLen(dict)),
                            encodeNormalString(s, wok))
              ELSE WithDict(dict, encodeNormalString(s, wok))
    ELSE WithDict(dict, encodeNormalString(s, wok))

\* mutant: the dictionary is looked up only when the intern flag is set
encodeInternedString_LookupIfIntern(dict, s, intern, wok) ==
    IF Len(s) >= minInternedStringLen
    THEN IF intern /\ EDictHas(dict, s)
         THEN WithDict(dict,
                  encodeInternedStringIndex(IntOf(EDictGet(dict, s)), wok))
         ELSE IF intern /\ EDictLen(dict) < maxDictLen
              THEN WithDict(EDictPut(dict, s, EDictLen(dict)),
                            encodeNormalString(s, wok))
              ELSE WithDict(dict, encodeNormalString(s, wok))
    ELSE WithDict(dict, encodeNormalString(s, wok))

\* mutant: a new string is given the index len(e.dict) + 1
encodeInternedString_IndexPlusOne(dict, s, intern, wok) ==
    IF Len(s) >= minInternedStringLen
    THEN IF EDictHas(dict, s)
         THEN WithDict(dict,
                  encodeInternedStringIndex(IntOf(EDictGet(dict, s)), wok))
         ELSE IF intern /\ EDictLen(dict) < maxDictLen
              THEN WithDict(EDictPut(dict, s, EDictLen(dict) + 1),
                            encodeNormalString(s, wok))
              ELSE WithDict(dict, encodeNormalString(s, wok))
    ELSE WithDict(dict, encodeNormalString(s, wok))

\* mutant: the first occurrence is inserted and written as a reference too
encodeInternedString_RefAtFirst(dict, s, intern, wok) ==
    IF Len(s) >= minInternedStringLen
    THEN IF EDictHas(dict, s)
         THEN WithDict(dict, encodeInternedStringIndex(IntOf(EDictGet(dict, s)), wok))
         ELSE IF intern /\ EDictLen(dict) < maxDictLen
              THEN WithDict(EDictPut(dict, s, EDictLen(dict)),
                            encodeInternedStringIndex(IntOf(EDictLen(dict)), wok))
              ELSE WithDict(dict, encodeNormalString(s, wok))
    ELSE WithDict(dict, encodeNormalString(s, wok))

encodeInternedString(dict, s, intern, wok) ==
    IF Len(s) >= minInternedStringLen
    THEN IF EDictHas(dict, s)
         THEN WithDict(dict,
                  encodeInternedStringIndex(IntOf(EDictGet(dict, s)), wok))
         ELSE IF intern /\ EDictLen(dict) < maxDictLen
              THEN WithDict(EDictPut(dict, s, EDictLen(dict)),
                            encodeNormalString(s, wok))
              ELSE WithDict(dict, encodeNormalString(s, wok))
    ELSE WithDict(dict, encodeNormalString(s, wok))

encodeInternedStringValue(dict, s, wok) ==
    encodeInternedString(dict, s, TRUE, wok)

(***************************************************************************)
(* Values of an interface-typed field: nil, a string, an unsigned integer  *)
(* below 256, or a byte slice.  [k |-> kind, s |-> bytes, n |-> number].   *)
(***************************************************************************)
NilValue == [k |-> "nil", s |-> <<>>, n |-> 0]

StrValue(s) == [k |-> "str", s |-> s, n |-> 0]

IntValue(n) == [k |-> "int", s |-> <<>>, n |-> n]

BinValue(b) == [k |-> "bin", s |-> b, n |-> 0]

\* msgpcode of the generic encoder
PosFixedNumHigh == 127
Uint8 == 204

EncodeNil(wok) == writeCode(Nil, wok)

\* the host format's generic encoder, for the integers and byte slices above
EncodeValue(v, wok) ==
    IF v.k = "int"
    THEN IF v.n <= PosFixedNumHigh THEN writeCode(v.n, wok)
                                   ELSE write1(Uint8, v.n, wok)
    ELSE Then(write1(Bin8, Len(v.s), wok), write(v.s, wok))

\* mutant: a nil value is encoded as the empty string
encodeInternedInterfaceValue_NilAsString(dict, v, wok) ==
    IF v.k = "nil" \/ v.k = "str"
    THEN encodeInternedString(dict, v.s, TRUE, wok)
    ELSE WithDict(dict, EncodeValue(v, wok))

encodeInternedInterfaceValue(dict, v, wok) ==
    IF v.k = "nil" THEN WithDict(dict, EncodeNil(wok))
    ELSE IF v.k = "str" THEN encodeInternedString(dict, v.s, TRUE, wok)
    ELSE WithDict(dict, EncodeValue(v, wok))

(***************************************************************************)
(* The decoder's reader d.s over the wire.  pos counts the bytes consumed. *)
(* The int of the decoder's build has intSize bits.                        *)
(***************************************************************************)
VARIABLES wire, intSize

ReadByte(p) ==
    IF p < Len(wire) THEN [c |-> wire[p + 1], err |-> Ok, pos |-> p + 1]
                     ELSE [c |-> 0, err |-> "EOF", pos |-> p]

UnreadByte(p) == p - 1

readCode(p) == ReadByte(p)

\* n bytes, n an int >= 0; a short read consumes what is left
readN(p, n) ==
    IF n.hi = 0 /\ p + n.lo <= Len(wire)
    THEN [b |-> SubSeq(wire, p + 1, p + n.lo), err |-> Ok, pos |-> p + n.lo]
    ELSE [b |-> <<>>,
          err |-> IF p < Len(wire) THEN "UnexpectedEOF" ELSE "EOF",
          pos |-> Len(wire)]

stringWithLen(p, n) == readN(p, n)

\* int8(b) of a byte
Int8Of(b) == IF b >= 128 THEN b - 256 ELSE b

parseExtLen(c) == IF c = FixExt1 THEN 1 ELSE IF c = FixExt2 THEN 2 ELSE 4

\* for the codes FixExt1, FixExt2, FixExt4: the length the code fixes, then
\* the type byte
extHeader(p, c) ==
    LET r == readCode(p)
    IN  [typeID |-> Int8Of(r.c), length |-> parseExtLen(c),
         err |-> r.err, pos |-> r.pos]

\* mutant: the 2-byte index is read little-endian
decodeInternedStringIndex_LittleEndian(p, length) ==
    IF length = 1
    THEN LET r == ReadByte(p)
         IN  IF r.err # Ok THEN [idx |-> IntOf(0), err |-> r.err, pos |-> r.pos]
             ELSE [idx |-> IntOf(r.c), err |-> Ok, pos |-> r.pos]
    ELSE IF length = 2
    THEN LET r == readN(p, IntOf(2))
         IN  IF r.err # Ok THEN [idx |-> IntOf(0), err |-> r.err, pos |-> r.pos]
             ELSE [idx |-> IntOf(r.b[2] * 256 + r.b[1]), err |-> Ok,
                   pos |-> r.pos]
    ELSE IF length = 4
    THEN LET r == readN(p, IntOf(4))
         IN  IF r.err # Ok THEN [idx |-> IntOf(0), err |-> r.err, pos |-> r.pos]
             ELSE [idx |-> IntOfUint32(r.b, intSize), err |-> Ok,
                   pos |-> r.pos]
    ELSE [idx |-> IntOf(0), err |-> "MalformedIndexWidth", pos |-> p]

decodeInternedStringIndex(p, length) ==
    IF length = 1
    THEN LET r == ReadByte(p)
         IN  IF r.err # Ok THEN [idx |-> IntOf(0), err |-> r.err, pos |-> r.pos]
             ELSE [idx |-> IntOf(r.c), err |-> Ok, pos |-> r.pos]
    ELSE IF length = 2
    THEN LET r == readN(p, IntOf(2))
         IN  IF r.err # Ok THEN [idx |-> IntOf(0), err |-> r.err, pos |-> r.pos]
             ELSE [idx |-> IntOf(r.b[1] * 256 + r.b[2]), err |-> Ok,
                   pos |-> r.pos]
    ELSE IF length = 4
    THEN LET r == readN(p, IntOf(4))
         IN  IF r.err # Ok THEN [idx |-> IntOf(0), err |-> r.err, pos |-> r.pos]
             ELSE [idx |-> IntOfUint32(r.b, intSize), err |-> Ok,
                   pos |-> r.pos]
    ELSE [idx |-> IntOf(0), err |-> "MalformedIndexWidth", pos |-> p]

\* d.dict[idx] with a negative idx is a run-time panic
internedStringAtIndex(dict, idx) ==
    IF IntLE(IntOf(DDictLen(dict)), idx)
    THEN [s |-> <<>>, err |-> "IndexOutOfRange"]
    ELSE IF idx.hi < 0
    THEN [s |-> <<>>, err |-> "panic"]
    ELSE [s |-> DDictAt(dict, NatOf(idx)), err |-> Ok]

\* a result of the decoder is [s, err, pos, dict]: the string returned, the
\* error, the reader's position and d.dict after the call
Failed(err, p, dict) == [s |-> <<>>, err |-> err, pos |-> p, dict |-> dict]

\* mutant: a literal is interned only when longer than minInternedStringLen
decodeInternedStringWithLen_LongerOnly(dict, p, n, intern) ==
    IF IntLE(n, IntOf(0))
    THEN [s |-> <<>>, err |-> Ok, pos |-> p, dict |-> dict]
    ELSE LET r == stringWithLen(p, n)
         IN  IF r.err # Ok THEN Failed(r.err, r.pos, dict)
             ELSE [s |-> r.b, err |-> Ok, pos |-> r.pos,
                   dict |-> IF /\ intern
                               /\ Len(r.b) > minInternedStringLen
                               /\ DDictLen(dict) < maxDictLen
                            THEN DDictAppend(dict, r.b)
                            ELSE dict]

\* mutant: a literal takes the place of the last entry of a dictionary that
\* has entries of this run
decodeInternedStringWithLen_Overwrite(dict, p, n, intern) ==
    IF IntLE(n, IntOf(0))
    THEN [s |-> <<>>, err |-> Ok, pos |-> p, dict |-> dict]
    ELSE LET r == stringWithLen(p, n)
         IN  IF r.err # Ok THEN Failed(r.err, r.pos, dict)
             ELSE [s |-> r.b, err |-> Ok, pos |-> r.pos,
                   dict |-> IF /\ intern
                               /\ Len(r.b) >= minInternedStringLen
                               /\ DDictLen(dict) < maxDictLen
                            THEN IF Len(dict.tail) > 0
                                 THEN [dict EXCEPT !.tail[Len(dict.tail)] = r.b]
                                 ELSE DDictAppend(dict, r.b)
                            ELSE dict]

\* mutant: the literal is appended whatever the flag
decodeInternedStringWithLen_AnyFlag(dict, p, n, intern) ==
    IF IntLE(n, IntOf(0))
    THEN [s |-> <<>>, err |-> Ok, pos |-> p, dict |-> dict]
    ELSE LET r == stringWithLen(p, n)
         IN  IF r.err # Ok THEN Failed(r.err, r.pos, dict)
             ELSE [s |-> r.b, err |-> Ok, pos |-> r.pos,
                   dict |-> IF /\ Len(r.b) >= minInternedStringLen
                               /\ DDictLen(dict) < maxDictLen
                            THEN DDictAppend(dict, r.b)
                            ELSE dict]

\* mutant: the bytes of a literal cut short are appended
decodeInternedStringWithLen_Partial(dict, p, n, intern) ==
    IF IntLE(n, IntOf(0))
    THEN [s |-> <<>>, err |-> Ok, pos |-> p, dict |-> dict]
    ELSE LET r == stringWithLen(p, n)
         IN  IF r.err # Ok
             THEN Failed(r.err, r.pos,
                         DDictAppend(dict, SubSeq(wire, p + 1, Len(wire))))
             ELSE [s |-> r.b, err |-> Ok, pos |-> r.pos,
                   dict |-> IF /\ intern
                               /\ Len(r.b) >= minInternedStringLen
                               /\ DDictLen(dict) < maxDictLen
                            THEN DDictAppend(dict, r.b)
                            ELSE dict]

decodeInternedStringWithLen(dict, p, n, intern) ==
    IF IntLE(n, IntOf(0))
    THEN [s |-> <<>>, err |-> Ok, pos |-> p, dict |-> dict]
    ELSE LET r == stringWithLen(p, n)
         IN  IF r.err # Ok THEN Failed(r.err, r.pos, dict)
             ELSE [s |-> r.b, err |-> Ok, pos |-> r.pos,
                   dict |-> IF /\ intern
                               /\ Len(r.b) >= minInternedStringLen
                               /\ DDictLen(dict) < maxDictLen
                            THEN DDictAppend(dict, r.b)
                            ELSE dict]

IsFixedString(c) == c >= FixedStrLow /\ c <= FixedStrHigh

decodeInternedString(dict, p, c, intern) ==
    IF IsFixedString(c)
    THEN decodeInternedStringWithLen(dict, p, IntOf(c % (FixedStrMask + 1)),
                                     intern)
    ELSE IF c = Nil
    THEN [s |-> <<>>, err |-> Ok, pos |-> p, dict |-> dict]
    ELSE IF c \in {FixExt1, FixExt2, FixExt4}
    THEN LET h == extHeader(p, c)
         IN  IF h.err # Ok THEN Failed(h.err, h.pos, dict)
             ELSE IF h.typeID # Int8Of(internedStringExtID)
             THEN Failed("ExtensionTypeMismatch", h.pos, dict)
             ELSE LET i == decodeInternedStringIndex(h.pos, h.length)
                  IN  IF i.err # Ok THEN Failed(i.err, i.pos, dict)
                      ELSE LET a == internedStringAtIndex(dict, i.idx)
                           IN  [s |-> a.s, err |-> a.err, pos |-> i.pos,
                                dict |-> dict]
    ELSE IF c \in {Str8, Bin8}
    THEN LET r == ReadByte(p)
         IN  IF r.err # Ok THEN Failed(r.err, r.pos, dict)
             ELSE decodeInternedStringWithLen(dict, r.pos, IntOf(r.c), intern)
    ELSE IF c \in {Str16, Bin16}
    THEN LET r == readN(p, IntOf(2))
         IN  IF r.err # Ok THEN Failed(r.err, r.pos, dict)
             ELSE decodeInternedStringWithLen(dict, r.pos,
                      IntOf(r.b[1] * 256 + r.b[2]), intern)
    ELSE IF c \in {Str32, Bin32}
    THEN LET r == readN(p, IntOf(4))
         IN  IF r.err # Ok THEN Failed(r.err, r.pos, dict)
             ELSE decodeInternedStringWithLen(dict, r.pos,
                      IntOfUint32(r.b, intSize), intern)
    ELSE Failed("UnexpectedCode", p, dict)

(***************************************************************************)
(* The decode entry points.  A result is [v, set, err, pos, dict, gen]:    *)
(* the value bound to the target, whether the target was set, the error,   *)
(* the reader's position and d.dict after the call, and the position at    *)
(* which the generic decoder was started (-1: it was not).                 *)
(***************************************************************************)
NoGen == 0 - 1

Unset(err, p, dict) ==
    [v |-> NilValue, set |-> FALSE, err |-> err, pos |-> p, dict |-> dict,
     gen |-> NoGen]

\* the decoder registered for the reserved extension type: the host format
\* calls it, after the envelope's header, with the payload length extLen of
\* the envelope; the result is [s, err, pos]
decodeInternedStringExt(dict, p, extLen) ==
    LET i == decodeInternedStringIndex(p, extLen)
    IN  IF i.err # Ok THEN [s |-> <<>>, err |-> i.err, pos |-> i.pos]
        ELSE LET a == internedStringAtIndex(dict, i.idx)
             IN  [s |-> a.s, err |-> a.err, pos |-> i.pos]

\* the code of the envelope with an 8-byte payload
FixExt8 == 215

\* the host format's generic decoder, for the integers of EncodeValue and for
\* an 8-byte envelope, whose payload goes to the decoder registered for its
\* type
decodeInterfaceValue(dict, p) ==
    LET rc == readCode(p)
    IN  IF rc.err # Ok THEN [v |-> NilValue, err |-> rc.err, pos |-> rc.pos]
        ELSE IF rc.c = FixExt8
        THEN LET t == readCode(rc.pos)
             IN  IF t.err # Ok THEN [v |-> NilValue, err |-> t.err, pos |-> t.pos]
                 ELSE IF Int8Of(t.c) # Int8Of(internedStringExtID)
                 THEN [v |-> NilValue, err |-> "GenericDecodeError",
                       pos |-> t.pos]
                 ELSE LET x == decodeInternedStringExt(dict, t.pos, 8)
                      IN  [v |-> IF x.err = Ok THEN StrValue(x.s) ELSE NilValue,
                           err |-> x.err, pos |-> x.pos]
        ELSE IF rc.c <= PosFixedNumHigh
        THEN [v |-> IntValue(rc.c), err |-> Ok, pos |-> rc.pos]
        ELSE IF rc.c = Uint8
        THEN LET r == ReadByte(rc.pos)
             IN  IF r.err # Ok THEN [v |-> NilValue, err |-> r.err, pos |-> r.pos]
                 ELSE [v |-> IntValue(r.c), err |-> Ok, pos |-> r.pos]
        ELSE [v |-> NilValue, err |-> "GenericDecodeError", pos |-> rc.pos]

\* mutant: the code byte is not put back before the generic decoder runs
decodeInternedInterfaceValue_NoRewind(dict, p) ==
    LET rc == readCode(p)
    IN  IF rc.err # Ok THEN Unset(rc.err, rc.pos, dict)
        ELSE LET r == decodeInternedString(dict, rc.pos, rc.c, TRUE)
             IN  IF r.err = Ok
                 THEN [v |-> StrValue(r.s), set |-> TRUE, err |-> Ok,
                       pos |-> r.pos, dict |-> r.dict, gen |-> NoGen]
                 ELSE IF r.err # "UnexpectedCode"
                 THEN Unset(r.err, r.pos, r.dict)
                 ELSE LET u == r.pos
                          g == decodeInterfaceValue(r.dict, u)
                      IN  [v |-> g.v, set |-> g.err = Ok, err |-> g.err,
                           pos |-> g.pos, dict |-> r.dict, gen |-> u]

\* mutant: every error of decodeInternedString hands over to the generic
\* decoder
decodeInternedInterfaceValue_AnyError(dict, p) ==
    LET rc == readCode(p)
    IN  IF rc.err # Ok THEN Unset(rc.err, rc.pos, dict)
        ELSE LET r == decodeInternedString(dict, rc.pos, rc.c, TRUE)
             IN  IF r.err = Ok
                 THEN [v |-> StrValue(r.s), set |-> TRUE, err |-> Ok,
                       pos |-> r.pos, dict |-> r.dict, gen |-> NoGen]
                 ELSE LET u == UnreadByte(r.pos)
                          g == decodeInterfaceValue(r.dict, u)
                      IN  [v |-> g.v, set |-> g.err = Ok, err |-> g.err,
                           pos |-> g.pos, dict |-> r.dict, gen |-> u]

decodeInternedInterfaceValue(dict, p) ==
    LET rc == readCode(p)
    IN  IF rc.err # Ok THEN Unset(rc.err, rc.pos, dict)
        ELSE LET r == decodeInternedString(dict, rc.pos, rc.c, TRUE)
             IN  IF r.err = Ok
                 THEN [v |-> StrValue(r.s), set |-> TRUE, err |-> Ok,
                       pos |-> r.pos, dict |-> r.dict, gen |-> NoGen]
                 ELSE IF r.err # "UnexpectedCode"
                 THEN Unset(r.err, r.pos, r.dict)
                 ELSE LET u == UnreadByte(r.pos)
                          g == decodeInterfaceValue(r.dict, u)
                      IN  [v |-> g.v, set |-> g.err = Ok, err |-> g.err,
                           pos |-> g.pos, dict |-> r.dict, gen |-> u]

\* mutant: the code byte is put back and the generic decoder's value is
\* stored when the code is not one of the interned string's
decodeInternedStringValue_Delegate(dict, p) ==
    LET rc == readCode(p)
    IN  IF rc.err # Ok THEN Unset(rc.err, rc.pos, dict)
        ELSE LET r == decodeInternedString(dict, rc.pos, rc.c, TRUE)
             IN  IF r.err # Ok
                 THEN IF r.err = "UnexpectedCode"
                      THEN LET u == UnreadByte(r.pos)
                               g == decodeInterfaceValue(r.dict, u)
                           IN  [v |-> g.v, set |-> g.err = Ok, err |-> g.err,
                                pos |-> g.pos, dict |-> r.dict, gen |-> u]
                      ELSE Unset(r.err, r.pos, r.dict)
                 ELSE [v |-> StrValue(r.s), set |-> TRUE, err |-> Ok,
                       pos |-> r.pos, dict |-> r.dict, gen |-> NoGen]

decodeInternedStringValue(dict, p) ==
    LET rc == readCode(p)
    IN  IF rc.err # Ok THEN Unset(rc.err, rc.pos, dict)
        ELSE LET r == decodeInternedString(dict, rc.pos, rc.c, TRUE)
             IN  IF r.err # Ok
                 THEN IF r.err = "UnexpectedCode"
                      THEN Unset("InvalidCode", r.pos, r.dict)
                      ELSE Unset(r.err, r.pos, r.dict)
                 ELSE [v |-> StrValue(r.s), set |-> TRUE, err |-> Ok,
                       pos |-> r.pos, dict |-> r.dict, gen |-> NoGen]

(***************************************************************************)
(* State.  One Encoder (e_dict, e_err: the error of its last call) writes  *)
(* to the wire, one Decoder (d_dict, d_pos, d_err) reads it.  History:     *)
(* sent, the values offered to the encoder with the flag of each call and  *)
(* the size of e.dict when the call began; marks, the length of the wire   *)
(* after each call of the encoder; recv, what each call of the decoder     *)
(* returned.                                                               *)
(***************************************************************************)
VARIABLES e_dict, e_err, d_dict, d_pos, d_err, sent, marks, recv

vars == <<wire, intSize, e_dict, e_err, d_dict, d_pos, d_err, sent, marks, recv>>

\* the dictionaries start empty; a state with both holding the first n
\* filler strings is the one a run reaches that encodes Filler(0..n-1) in
\* order and decodes them
Prefills == {0, MaxUint8, maxDictLen - 2}

Init ==
    /\ wire = <<>>
    /\ intSize \in IntSizes
    /\ \E n \in Prefills : e_dict = EDictOf(n) /\ d_dict = DDictOf(n)
    /\ e_err = Ok
    /\ d_pos = 0
    /\ d_err = Ok
    /\ sent = <<>>
    /\ marks = <<>>
    /\ recv = <<>>

\* the strings offered: "", "xy", "abc", "xyz", "#\x00\x00", and 32 times "L"
Long == [i \in 1..32 |-> 76]

Strings == {<<>>, <<120, 121>>, <<97, 98, 99>>, <<120, 121, 122>>,
            Filler(0), Long}

\* the encoder's side of a call: r is the call's result
Encoded(v, intern, r) ==
    /\ e_dict' = r.dict
    /\ e_err' = r.err
    /\ wire' = wire \o r.out
    /\ sent' = Append(sent, [v |-> v, intern |-> intern,
                              n0 |-> EDictLen(e_dict)])
    /\ marks' = Append(marks, Len(wire) + Len(r.out))
    /\ UNCHANGED <<intSize, d_dict, d_pos, d_err, recv>>

\* the decoder's side of a call of entry point fn that started at d_pos: r is
\* the call's result
Decoded(fn, r) ==
    /\ d_dict' = r.dict
    /\ d_pos' = r.pos
    /\ d_err' = r.err
    /\ recv' = Append(recv, [fn |-> fn, v |-> r.v, set |-> r.set,
                              err |-> r.err, at |-> d_pos, gen |-> r.gen])
    /\ UNCHANGED <<wire, intSize, e_dict, e_err, sent, marks>>

CanEncode == Len(marks) < MaxOps /\ e_err = Ok

\* a decoder is called when there is input, and not again after an error
CanDecode == d_err = Ok /\ d_pos < Len(wire)

EncodeStringValue ==
    /\ CanEncode
    /\ \E s \in Strings :
          Encoded(StrValue(s), TRUE, encodeInternedStringValue(e_dict, s, TRUE))

DecodeStringValue ==
    /\ CanDecode
    /\ Decoded("string", decodeInternedStringValue(d_dict, d_pos))

Next == EncodeStringValue \/ DecodeStringValue

Spec == Init /\ [][Next]_vars

(***************************************************************************)
(* The encoder alone, called with either value of the intern flag.         *)
(***************************************************************************)
FlagStrings == Strings \ {<<>>, Long}

EncodeString ==
    /\ CanEncode
    /\ \E s \in FlagStrings, intern \in BOOLEAN :
          Encoded(StrValue(s), intern,
                  encodeInternedString(e_dict, s, intern, TRUE))

NextFlag == EncodeString

SpecFlag == Init /\ [][NextFlag]_vars

(***************************************************************************)
(* The interface-typed entry points: the encoder is offered nil, strings,  *)
(* integers and byte slices; the decoder reads a value through either      *)
(* entry point.                                                            *)
(***************************************************************************)
Values == {NilValue, StrValue(<<97, 98, 99>>), IntValue(5), IntValue(200),
           BinValue(<<1, 2, 3>>)}

EncodeInterfaceValue ==
    /\ CanEncode
    /\ \E v \in Values :
          Encoded(v, TRUE, encodeInternedInterfaceValue(e_dict, v, TRUE))

DecodeInterfaceValue ==
    /\ CanDecode
    /\ Decoded("interface", decodeInternedInterfaceValue(d_dict, d_pos))

NextIface == EncodeInterfaceValue \/ DecodeInterfaceValue \/ DecodeStringValue

SpecIface == Init /\ [][NextIface]_vars

(***************************************************************************)
(* The decoder on input that no encoder of this package wrote: frames of   *)
(* any content are put on the wire, whole or cut short.                    *)
(***************************************************************************)
\* how many frames are fed
MaxFeed == 2

FeedFrames ==
    {\* references of the reserved type: 1, 2 and 4 bytes
     <<FixExt1, internedStringExtID, 0>>,
     <<FixExt1, internedStringExtID, 255>>,
     <<FixExt2, internedStringExtID, 1, 0>>,
     <<FixExt2, internedStringExtID, 255, 253>>,
     <<FixExt2, internedStringExtID, 255, 255>>,
     <<FixExt4, internedStringExtID, 0, 0, 0, 0>>,
     <<FixExt4, internedStringExtID, 0, 1, 0, 0>>,
     <<FixExt4, internedStringExtID, 128, 0, 0, 0>>,
     <<FixExt4, internedStringExtID, 255, 255, 255, 255>>,
     \* envelopes of another type
     <<FixExt1, 5, 0>>,
     <<FixExt2, 5, 0, 0>>,
     <<FixExt4, 127, 0, 0, 0, 0>>,
     \* an envelope of the reserved type that is no reference
     <<FixExt8, internedStringExtID, 0, 0, 0, 0, 0, 0, 0, 0>>,
     \* literals: "abc" in every form, "xy", a byte slice
     <<FixedStrLow + 3, 97, 98, 99>>,
     <<Str8, 2, 120, 121>>,
     <<Str16, 0, 3, 97, 98, 99>>,
     <<Str32, 0, 0, 0, 3, 97, 98, 99>>,
     <<Bin8, 3, 1, 2, 3>>,
     \* nil, an integer
     <<Nil>>,
     <<5>>,
     \* cut short: a reference, a literal, a length, an envelope's header
     <<FixExt2, internedStringExtID, 0>>,
     <<FixedStrLow + 3, 97>>,
     <<Str16, 0>>,
     <<FixExt1>>}

Feed ==
    /\ Len(marks) < MaxFeed
    /\ \E f \in FeedFrames :
          /\ wire' = wire \o f
          /\ marks' = Append(marks, Len(wire) + Len(f))
    /\ UNCHANGED <<intSize, e_dict, e_err, d_dict, d_pos, d_err, sent, recv>>

NextAdv == Feed \/ DecodeStringValue \/ DecodeInterfaceValue

SpecAdv == Init /\ [][NextAdv]_vars

(***************************************************************************)
(* The index codec on its own: indices given to encodeInternedStringIndex, *)
(* and the payloads read back by decodeInternedStringIndex.                *)
(***************************************************************************)
\* an index that goes through the codec, as a value of the histories
IdxValue(idx) == [k |-> "idx", s |-> <<>>, n |-> idx]

\* the indices tried, ints of an encoder whose int has 64 bits: the ends of
\* every width, and two past the last
Indexes ==
    {IntOf(0), IntOf(1), IntOf(MaxUint8), IntOf(MaxUint8 + 1),
     IntOf(MaxUint16), [hi |-> 1, lo |-> 0], [hi |-> 1, lo |-> 2],
     [hi |-> Limb \div 2 - 1, lo |-> Limb - 1], [hi |-> Limb \div 2, lo |-> 0],
     MaxUint32, [hi |-> Limb, lo |-> 0], [hi |-> Limb, lo |-> 7]}

\* payload lengths of envelopes that are no reference
OtherWidths == {0, 3, 8}

\* the number of indices written in a run
MaxIdx == 2

EncodeIndex ==
    /\ Len(marks) < MaxIdx
    /\ e_err = Ok
    /\ \E idx \in Indexes :
          Encoded(IdxValue(idx), FALSE,
                  WithDict(e_dict, encodeInternedStringIndex(idx, TRUE)))

\* the payload of the envelope at d_pos is read at the length its code fixes
DecodeIndex ==
    /\ CanDecode
    /\ LET rc == readCode(d_pos)
           h == extHeader(rc.pos, rc.c)
           i == decodeInternedStringIndex(h.pos, h.length)
       IN  Decoded("index",
                   [v |-> IdxValue(i.idx), set |-> i.err = Ok, err |-> i.err,
                    pos |-> i.pos, dict |-> d_dict, gen |-> NoGen])

\* the registered decoder is called with another payload length
DecodeIndexWidth ==
    /\ CanDecode
    /\ \E extLen \in OtherWidths :
          LET x == decodeInternedStringExt(d_dict, d_pos, extLen)
          IN  Decoded("ext",
                      [v |-> StrValue(x.s), set |-> x.err = Ok, err |-> x.err,
                       pos |-> x.pos, dict |-> d_dict, gen |-> extLen])

NextIdx == EncodeIndex \/ DecodeIndex \/ DecodeIndexWidth

SpecIdx == Init /\ [][NextIdx]_vars

(***************************************************************************)
(* decodeInternedString with either value of its flag, on literals in      *)
(* every form and on references.                                           *)
(***************************************************************************)
LitFrames ==
    {<<FixedStrLow + 3, 97, 98, 99>>,
     <<Str8, 2, 120, 121>>,
     <<Str16, 0, 3, 120, 121, 122>>,
     <<Str32, 0, 0, 0, 3, 97, 98, 99>>,
     <<Bin8, 3, 1, 2, 3>>,
     <<FixExt1, internedStringExtID, 0>>,
     <<FixExt2, internedStringExtID, 255, 253>>}

\* the number of frames given to the decoder in a run
MaxLit == 3

FeedLiteral ==
    /\ Len(marks) < MaxLit
    /\ \E f \in LitFrames :
          /\ wire' = wire \o f
          /\ marks' = Append(marks, Len(wire) + Len(f))
    /\ UNCHANGED <<intSize, e_dict, e_err, d_dict, d_pos, d_err, sent, recv>>

\* the code byte is read and decodeInternedString is called with the flag
DecodeString ==
    /\ CanDecode
    /\ \E intern \in BOOLEAN :
          LET rc == readCode(d_pos)
              r == IF rc.err # Ok THEN Failed(rc.err, rc.pos, d_dict)
                   ELSE decodeInternedString(d_dict, rc.pos, rc.c, intern)
          IN  Decoded(IF intern THEN "intern" ELSE "plain",
                      [v |-> StrValue(r.s), set |-> r.err = Ok, err |-> r.err,
                       pos |-> r.pos, dict |-> r.dict, gen |-> NoGen])

NextLit == FeedLiteral \/ DecodeString

SpecLit == Init /\ [][NextLit]_vars

(***************************************************************************)
(* An encoder whose writer may fail.  The Encoder keeps no error: it can   *)
(* be called again after a call that failed.                               *)
(***************************************************************************)
EncodeStringWriter ==
    /\ Len(marks) < MaxOps
    /\ \E s \in FlagStrings, wok \in BOOLEAN :
          Encoded(StrValue(s), TRUE, encodeInternedString(e_dict, s, TRUE, wok))

NextWriter == EncodeStringWriter

SpecWriter == Init /\ [][NextWriter]_vars

(***************************************************************************)
(* What the claims read off the wire.                                      *)
(***************************************************************************)
\* the bytes written by the k-th call of the encoder
Frame(k) == SubSeq(wire, (IF k = 1 THEN 0 ELSE marks[k - 1]) + 1, marks[k])

\* a reference envelope: FixExt1/2 code, the reserved type, the index
IsRef(f, idx) ==
    \/ f = <<FixExt1, internedStringExtID, idx>> /\ idx <= 255
    \/ f = <<FixExt2, internedStringExtID, idx \div 256, idx % 256>>
          /\ idx > 255 /\ idx <= 65535

IsAnyRef(f) == Len(f) >= 2 /\ f[1] \in {FixExt1, FixExt2, FixExt4}
                           /\ f[2] = internedStringExtID

\* the literal of s: the fixed short form or the 8-bit length form
IsLiteral(f, s) ==
    \/ Len(s) < 32 /\ f = <<FixedStrLow + Len(s)>> \o s
    \/ Len(s) >= 32 /\ Len(s) < 256 /\ f = <<Str8, Len(s)>> \o s

Last(q) == q[Len(q)]

\* the decoder has read everything the encoder wrote
CaughtUp == Len(recv) = Len(sent) /\ d_pos = Len(wire)

\* a step of the encoder, of the decoder
EncStep == sent' # sent
DecStep == recv' # recv

\* the bytes the encoder writes in this step
NewFrame == SubSeq(wire', Len(wire) + 1, Len(wire'))

\* the value offered to the encoder in this step
Offered == Last(sent').v.s

\* what the decoder returns in this step
Returned == Last(recv')

\* the literal that starts at position p of the wire, in the fixed short form
\* or the 8-bit length form (<<>> and FALSE when there is none)
LiteralAt(p) ==
    IF p < Len(wire) /\ IsFixedString(wire[p + 1])
          /\ p + 1 + (wire[p + 1] - FixedStrLow) <= Len(wire)
    THEN [ok |-> TRUE,
          s |-> SubSeq(wire, p + 2, p + 1 + (wire[p + 1] - FixedStrLow))]
    ELSE IF p + 1 < Len(wire) /\ wire[p + 1] \in {Str8, Bin8}
               /\ p + 2 + wire[p + 2] <= Len(wire)
    THEN [ok |-> TRUE, s |-> SubSeq(wire, p + 3, p + 2 + wire[p + 2])]
    ELSE [ok |-> FALSE, s |-> <<>>]

\* the index of the 1-byte or 2-byte reference envelope of the reserved type
\* that starts at position p of the wire (-1 when there is none)
RefAt(p) ==
    IF p + 2 < Len(wire) /\ wire[p + 1] = FixExt1
          /\ wire[p + 2] = internedStringExtID
    THEN wire[p + 3]
    ELSE IF p + 3 < Len(wire) /\ wire[p + 1] = FixExt2
               /\ wire[p + 2] = internedStringExtID
    THEN wire[p + 3] * 256 + wire[p + 4]
    ELSE 0 - 1

\* the code byte the decoder reads first in this step
CodeAt(p) == wire[p + 1]

IsLiteralCode(c) ==
    IsFixedString(c) \/ c \in {Str8, Str16, Str32, Bin8, Bin16, Bin32}

\* the payload width of the complete reference envelope of the reserved type
\* that starts at position p of the wire (0 when there is none)
RefWidthAt(p) ==
    IF p + 1 < Len(wire) /\ wire[p + 2] = internedStringExtID
    THEN IF wire[p + 1] = FixExt1 /\ p + 3 <= Len(wire) THEN 1
         ELSE IF wire[p + 1] = FixExt2 /\ p + 4 <= Len(wire) THEN 2
         ELSE IF wire[p + 1] = FixExt4 /\ p + 6 <= Len(wire) THEN 4
         ELSE 0
    ELSE 0

\* the index that envelope carries, a big-endian unsigned integer, as the two
\* 16-bit halves of its value
RefValueAt(p) ==
    LET w == RefWidthAt(p)
    IN  IF w = 1 THEN [hi |-> 0, lo |-> wire[p + 3]]
        ELSE IF w = 2 THEN [hi |-> 0, lo |-> wire[p + 3] * 256 + wire[p + 4]]
        ELSE [hi |-> wire[p + 3] * 256 + wire[p + 4],
              lo |-> wire[p + 5] * 256 + wire[p + 6]]

DictsAgree ==
    /\ DDictLen(d_dict) = EDictLen(e_dict)
    /\ d_dict.fill = e_dict.fill
    /\ \A s \in DOMAIN e_dict.m :
          /\ ~InFill(e_dict, s)
          /\ e_dict.m[s] >= d_dict.fill
          /\ e_dict.m[s] < DDictLen(d_dict)
          /\ DDictAt(d_dict, e_dict.m[s]) = s
    /\ \A k \in 1..Len(d_dict.tail) :
          /\ EDictHas(e_dict, d_dict.tail[k])
          /\ EDictGet(e_dict, d_dict.tail[k]) = d_dict.fill + k - 1

(***************************************************************************)
(* C1.  Lockstep: whenever the decoder has decoded, value by value, all    *)
(* the encoder has encoded with intern = true, the decode dictionary holds *)
(* string s at position i if and only if the encode dictionary maps s to   *)
(* i: same size, same strings, same indices.  Every prefix of every        *)
(* sequence of strings is reached with the decoder caught up, so this is   *)
(* the state after each value.                                             *)
(***************************************************************************)
C1_Lockstep == CaughtUp => DictsAgree

\* both sides hold two strings interned by this run, and a reference was read
C1_Witness ==
    /\ CaughtUp
    /\ Len(d_dict.tail) >= 2
    /\ \E k \in 1..Len(marks) : IsAnyRef(Frame(k))

(***************************************************************************)
(* C2.  Round trip: the strings offered to encodeInternedString(s, true),  *)
(* of any length and repetition, also after the dictionary cap is reached, *)
(* come back from decodeInternedStringValue the same, in the same order,   *)
(* with no error; the k-th call of the decoder consumes exactly the bytes  *)
(* of the k-th call of the encoder.                                        *)
(***************************************************************************)
C2_RoundTrip ==
    /\ Len(recv) <= Len(sent)
    /\ d_pos = (IF Len(recv) = 0 THEN 0 ELSE marks[Len(recv)])
    /\ \A k \in 1..Len(recv) :
          /\ recv[k].err = Ok
          /\ recv[k].set
          /\ recv[k].v = sent[k].v

\* a string that found the dictionary full, came twice as a literal, and was
\* decoded both times
C2_Witness ==
    \E k \in 2..Len(recv) :
        /\ sent[k].n0 = maxDictLen
        /\ Len(sent[k].v.s) >= minInternedStringLen
        /\ sent[k - 1].v = sent[k].v
        /\ IsLiteral(Frame(k - 1), sent[k].v.s)
        /\ IsLiteral(Frame(k), sent[k].v.s)
        /\ recv[k].v = sent[k].v

FirstOcc(k) ==
    CHOOSE j \in 1..k :
        /\ sent[j].v = sent[k].v
        /\ \A i \in 1..(j - 1) : sent[i].v # sent[k].v

(***************************************************************************)
(* C3.  With interning enabled, a string s of length >= 3 that is new to   *)
(* the encoder and first offered while the dictionary has room (size <     *)
(* 65,535) is written as a literal at that first occurrence and as a       *)
(* reference envelope at every later one, each reference carrying the      *)
(* index s was assigned at its first occurrence (the size of the           *)
(* dictionary then): one literal and k-1 references for k occurrences.     *)
(***************************************************************************)
C3_OneLiteralThenReferences ==
    \A k \in 1..Len(sent) :
        LET s == sent[k].v.s
            first == FirstOcc(k)
        IN  (/\ \A j \in 1..k : sent[j].intern
             /\ Len(s) >= minInternedStringLen
             /\ ~InFill(EDictOf(e_dict.fill), s)
             /\ sent[first].n0 < maxDictLen)
            => IF k = first THEN IsLiteral(Frame(k), s)
                            ELSE IsRef(Frame(k), sent[first].n0)

\* a string offered three times: a literal, then two references to its index
C3_Witness ==
    \E k \in 3..Len(sent) :
        /\ sent[k].v = sent[k - 1].v
        /\ sent[k].v = sent[k - 2].v
        /\ FirstOcc(k) = k - 2
        /\ sent[k - 2].n0 < maxDictLen
        /\ IsLiteral(Frame(k - 2), sent[k].v.s)
        /\ IsRef(Frame(k - 1), sent[k - 2].n0)
        /\ IsRef(Frame(k), sent[k - 2].n0)

NoShortEntries ==
    /\ \A s \in DOMAIN e_dict.m : Len(s) >= minInternedStringLen
    /\ \A k \in 1..Len(d_dict.tail) :
          Len(d_dict.tail[k]) >= minInternedStringLen

ShortEncodeStep ==
    (EncStep /\ Len(Offered) < minInternedStringLen)
        => (e_dict' = e_dict /\ IsLiteral(NewFrame, Offered))

ShortDecodeStep ==
    (DecStep /\ LiteralAt(d_pos).ok
             /\ Len(LiteralAt(d_pos).s) < minInternedStringLen)
        => /\ d_dict' = d_dict
           /\ Returned.err = Ok
           /\ Returned.set
           /\ Returned.v = StrValue(LiteralAt(d_pos).s)

(***************************************************************************)
(* C4.  Neither dictionary ever holds a string of length < 3.  Encoding a  *)
(* string of length < 3 writes its plain literal and leaves the encode     *)
(* dictionary as it was, however often the string is repeated; decoding a  *)
(* literal of length < 3 returns it and leaves the decode dictionary as it *)
(* was.                                                                    *)
(***************************************************************************)
C4_ShortNeverInterned ==
    []NoShortEntries /\ [][ShortEncodeStep /\ ShortDecodeStep]_vars

\* "xy" was offered three times and decoded three times, with other strings
\* interned meanwhile
C4_Witness ==
    \E k \in 3..Len(recv) :
        /\ \E i, j \in 1..(k - 1) :
              i # j /\ sent[i].v = sent[k].v /\ sent[j].v = sent[k].v
        /\ Len(sent[k].v.s) = 2
        /\ recv[k].v = sent[k].v
        /\ Len(d_dict.tail) >= 1

CapHolds ==
    /\ EDictLen(e_dict) <= maxDictLen
    /\ DDictLen(d_dict) <= maxDictLen

FullEncodeStep ==
    (EncStep /\ EDictLen(e_dict) = maxDictLen)
        => /\ e_dict' = e_dict
           /\ (Len(Offered) >= minInternedStringLen /\ ~EDictHas(e_dict, Offered))
                 => IsLiteral(NewFrame, Offered)
           /\ EDictHas(e_dict, Offered)
                 => IsRef(NewFrame, EDictGet(e_dict, Offered))

FullDecodeStep ==
    (DecStep /\ DDictLen(d_dict) = maxDictLen)
        => /\ d_dict' = d_dict
           /\ LiteralAt(d_pos).ok
                 => (Returned.err = Ok /\ Returned.v = StrValue(LiteralAt(d_pos).s))
           /\ (RefAt(d_pos) >= 0 /\ RefAt(d_pos) < maxDictLen)
                 => /\ Returned.err = Ok
                    /\ Returned.v = StrValue(DDictAt(d_dict, RefAt(d_pos)))

(***************************************************************************)
(* C5.  Capacity cap: each dictionary holds at most maxDictLen = 65,535    *)
(* entries.  Once a dictionary holds that many it never changes again: an  *)
(* eligible string that is not in it is written, and read, as a literal on *)
(* every occurrence and is not added, while a string that is in it is      *)
(* still written as a reference to its index and a reference is still      *)
(* resolved to the string at its index.                                    *)
(***************************************************************************)
C5_CapacityCap ==
    []CapHolds /\ [][FullEncodeStep /\ FullDecodeStep]_vars

\* both dictionaries are full; a new eligible string came as a literal and was
\* not added, a string of the dictionary came as a reference; both were read
C5_Witness ==
    /\ EDictLen(e_dict) = maxDictLen
    /\ DDictLen(d_dict) = maxDictLen
    /\ \E j, k \in 1..Len(recv) :
          /\ sent[j].n0 = maxDictLen
          /\ Len(sent[j].v.s) >= minInternedStringLen
          /\ IsLiteral(Frame(j), sent[j].v.s)
          /\ ~EDictHas(e_dict, sent[j].v.s)
          /\ recv[j].v = sent[j].v
          /\ sent[k].n0 = maxDictLen
          /\ IsAnyRef(Frame(k))
          /\ recv[k].v = sent[k].v

RefOutOfRangeAt(p) ==
    /\ RefWidthAt(p) # 0
    /\ IntLE(IntOf(DDictLen(d_dict)), RefValueAt(p))

RefOutOfRangeStep ==
    (DecStep /\ RefOutOfRangeAt(d_pos))
        => /\ Returned.err = "IndexOutOfRange"
           /\ ~Returned.set
           /\ d_dict' = d_dict

(***************************************************************************)
(* C6.  Decoding a reference envelope of the reserved type whose index is  *)
(* >= the size of the decode dictionary ends in the IndexOutOfRange error, *)
(* with no string returned and the dictionary not read outside its bounds, *)
(* for the payload widths 1, 2 and 4 and every dictionary size, 0          *)
(* included.                                                               *)
(***************************************************************************)
C6_RefOutOfRange == [][RefOutOfRangeStep]_vars

\* the same on a build whose int has 64 bits
C6_RefOutOfRange64 == [][intSize = 64 => RefOutOfRangeStep]_vars

\* a 4-byte index >= 2^31 was read on a build whose int has 32 bits
C6_Reached32 ==
    \E k \in 1..Len(recv) :
        /\ intSize = 32
        /\ RefWidthAt(recv[k].at) = 4
        /\ RefValueAt(recv[k].at).hi >= 32768
        /\ recv[k].err = "panic"

DelegateStep ==
    (/\ DecStep
     /\ Returned.fn = "interface"
     /\ CodeAt(d_pos) # Nil
     /\ ~IsLiteralCode(CodeAt(d_pos))
     /\ CodeAt(d_pos) \notin {FixExt1, FixExt2, FixExt4})
        => /\ Returned.gen = d_pos
           /\ d_dict' = d_dict
           /\ Returned.v = decodeInterfaceValue(d_dict, d_pos).v
           /\ Returned.err = decodeInterfaceValue(d_dict, d_pos).err
           /\ d_pos' = decodeInterfaceValue(d_dict, d_pos).pos

(***************************************************************************)
(* C7.  Interface-typed decode: when the code byte is neither nil, nor a   *)
(* literal string/binary code, nor FixExt1/2/4, the entry point puts back  *)
(* exactly the one byte it read and hands over to the generic decoder,     *)
(* which so starts at the position of the code byte; the decode dictionary *)
(* is unchanged and the value, error and final position are those of the   *)
(* generic decoder started there.                                          *)
(***************************************************************************)
C7_RewindThenDelegate == [][DelegateStep]_vars

\* the integer 200 (two bytes on the wire) came back through the generic
\* decoder, after a string was interned, and the next value was read
C7_Witness ==
    \E k \in 2..Len(recv) :
        /\ recv[k - 1].fn = "interface"
        /\ recv[k - 1].gen = recv[k - 1].at
        /\ recv[k - 1].v = IntValue(200)
        /\ recv[k - 1].err = Ok
        /\ recv[k].at = recv[k - 1].at + 2
        /\ recv[k].err = Ok
        /\ Len(d_dict.tail) >= 1

NilEncodeStep ==
    (EncStep /\ Last(sent').v = NilValue)
        => (NewFrame = <<Nil>> /\ e_dict' = e_dict /\ e_err' = Ok)

NilDecodeStep ==
    (DecStep /\ CodeAt(d_pos) = Nil)
        => /\ Returned.err = Ok
           /\ Returned.set
           /\ Returned.v = StrValue(<<>>)
           /\ d_dict' = d_dict
           /\ d_pos' = d_pos + 1

(***************************************************************************)
(* C8.  Nil: the interface-typed encode entry point writes for a nil value *)
(* the nil marker alone and leaves the encode dictionary unchanged; either *)
(* decode entry point returns the empty string for the nil marker and      *)
(* leaves the decode dictionary, size and contents, unchanged.             *)
(***************************************************************************)
C8_NilLeavesDictionaries == [][NilEncodeStep /\ NilDecodeStep]_vars

\* with a string interned on both sides, nil was encoded twice and decoded
\* once by each entry point
C8_Witness ==
    /\ Len(d_dict.tail) >= 1
    /\ Cardinality(DOMAIN e_dict.m) >= 1
    /\ \E j, k \in 1..Len(recv) :
          /\ sent[j].v = NilValue /\ recv[j].fn = "string"
          /\ sent[k].v = NilValue /\ recv[k].fn = "interface"
          /\ recv[j].v = StrValue(<<>>) /\ recv[k].v = StrValue(<<>>)

NoSecondEntry == \A s \in DOMAIN e_dict.m : ~InFill(e_dict, s)

InternedEncodeStep ==
    /\ (EncStep /\ EDictHas(e_dict, Offered))
          => (IsRef(NewFrame, EDictGet(e_dict, Offered)) /\ e_dict' = e_dict)
    /\ (EncStep /\ e_dict' # e_dict) => ~EDictHas(e_dict, Offered)

(***************************************************************************)
(* C9.  Once a string is in the encode dictionary at index i, every later  *)
(* encodeInternedString of it, with the intern flag set or not and also    *)
(* when the dictionary is full, writes a reference to i and no literal and *)
(* leaves the dictionary as it was; the dictionary never gets a second     *)
(* entry for a string it holds.                                            *)
(***************************************************************************)
C9_InternedStaysReference ==
    []NoSecondEntry /\ [][InternedEncodeStep]_vars

\* a string interned by this run is offered again with the flag unset while
\* the dictionary is full, and goes out as a reference
C9_Witness ==
    \E k \in 1..Len(sent) :
        /\ ~sent[k].intern
        /\ sent[k].n0 = maxDictLen
        /\ sent[k].v.s \in DOMAIN e_dict.m
        /\ IsRef(Frame(k), e_dict.m[sent[k].v.s])

IndicesAreRange ==
    /\ \A s \in DOMAIN e_dict.m : ~InFill(e_dict, s)
    /\ {e_dict.m[s] : s \in DOMAIN e_dict.m}
          = e_dict.fill..(EDictLen(e_dict) - 1)
    /\ \A s, u \in DOMAIN e_dict.m : s # u => e_dict.m[s] # e_dict.m[u]

InsertStep ==
    (EncStep /\ e_dict' # e_dict)
        => /\ e_dict'.fill = e_dict.fill
           /\ DOMAIN e_dict'.m = DOMAIN e_dict.m \cup {Offered}
           /\ Offered \notin DOMAIN e_dict.m
           /\ e_dict'.m[Offered] = EDictLen(e_dict)
           /\ \A s \in DOMAIN e_dict.m : e_dict'.m[s] = e_dict.m[s]
           /\ EDictLen(e_dict') = EDictLen(e_dict) + 1

(***************************************************************************)
(* C10.  Index assignment: the indices of the encode dictionary are        *)
(* pairwise distinct and are exactly 0..size-1, and a string that is       *)
(* inserted gets the size of the dictionary just before the insertion, so  *)
(* indices are handed out in increasing order from 0.                      *)
(***************************************************************************)
C10_IndexAssignment ==
    []IndicesAreRange /\ [][InsertStep]_vars

\* three strings were inserted, one after the other
C10_Witness ==
    \E s, u, x \in DOMAIN e_dict.m :
        /\ e_dict.m[s] = e_dict.fill
        /\ e_dict.m[u] = e_dict.fill + 1
        /\ e_dict.m[x] = e_dict.fill + 2

\* e.dict after the step holds every entry it held before, at the same index
EncodeDictGrows ==
    /\ e_dict'.fill = e_dict.fill
    /\ DOMAIN e_dict.m \subseteq DOMAIN e_dict'.m
    /\ \A s \in DOMAIN e_dict.m : e_dict'.m[s] = e_dict.m[s]
    /\ \A s \in DOMAIN e_dict'.m : ~InFill(e_dict', s)

\* d.dict before the step is a prefix of d.dict after it
DecodeDictGrows ==
    /\ d_dict'.fill = d_dict.fill
    /\ Len(d_dict'.tail) >= Len(d_dict.tail)
    /\ SubSeq(d_dict'.tail, 1, Len(d_dict.tail)) = d_dict.tail

(***************************************************************************)
(* C11.  The dictionaries only grow: over any sequence of calls of the     *)
(* encoder and of the decoder no entry is removed, no string changes its   *)
(* index and no position of the decode dictionary is overwritten; the      *)
(* dictionary before a step is a subset (a prefix, for the decoder) of the *)
(* dictionary after it.                                                    *)
(***************************************************************************)
C11_DictionariesOnlyGrow == [][EncodeDictGrows /\ DecodeDictGrows]_vars

\* both dictionaries took two strings in this run, and the decoder went on
\* to read a reference and a third literal
C11_Witness ==
    /\ Cardinality(DOMAIN e_dict.m) >= 2
    /\ Len(d_dict.tail) >= 2
    /\ Len(recv) = Len(sent)
    /\ \E j, k \in 1..Len(recv) :
          /\ IsAnyRef(Frame(j))
          /\ sent[k].n0 >= e_dict.fill + 2
          /\ IsLiteral(Frame(k), sent[k].v.s)

\* the envelope the claim fixes for idx: the code, the reserved type, idx
\* big-endian in 1, 2 or 4 bytes; nothing for an index past 2^32 - 1
EnvelopeOf(idx) ==
    IF idx.hi = 0 /\ idx.lo <= 255
    THEN <<FixExt1, internedStringExtID, idx.lo>>
    ELSE IF idx.hi = 0
    THEN <<FixExt2, internedStringExtID, idx.lo \div 256, idx.lo % 256>>
    ELSE IF idx.hi < Limb
    THEN <<FixExt4, internedStringExtID, idx.hi \div 256, idx.hi % 256,
           idx.lo \div 256, idx.lo % 256>>
    ELSE <<>>

(***************************************************************************)
(* C12.  encodeInternedStringIndex(idx) writes FixExt1 with a 1-byte       *)
(* payload iff idx <= 255, FixExt2 with a 2-byte payload iff 255 < idx <=  *)
(* 65,535, FixExt4 with a 4-byte payload iff 65,535 < idx <=               *)
(* 4,294,967,295, the payload being idx big-endian after the reserved type *)
(* tag; for a larger idx it fails with IndexOverflow and writes nothing.   *)
(***************************************************************************)
C12_WidthSelection ==
    \A k \in 1..Len(sent) :
       /\ Frame(k) = EnvelopeOf(sent[k].v.n)
       /\ (sent[k].v.n.hi >= Limb) => (k = Len(sent) /\ e_err = "IndexOverflow")
       /\ (sent[k].v.n.hi < Limb /\ k = Len(sent)) => e_err = Ok

\* 65535 and 65536 were written, in this order, in 4 and in 6 bytes
C12_Witness ==
    /\ Len(sent) = 2
    /\ sent[1].v.n = IntOf(MaxUint16) /\ sent[2].v.n = [hi |-> 1, lo |-> 0]
    /\ Len(wire) = 4 + 6
    /\ e_err = Ok

\* a FixExt1/2/4 code at position p of the wire, followed by a type byte
\* that is not the reserved one
WrongTypeAt(p) ==
    /\ p + 1 < Len(wire)
    /\ wire[p + 1] \in {FixExt1, FixExt2, FixExt4}
    /\ wire[p + 2] # internedStringExtID

WrongTypeStep ==
    (DecStep /\ WrongTypeAt(d_pos))
        => /\ Returned.err = "ExtensionTypeMismatch"
           /\ ~Returned.set
           /\ Returned.gen = NoGen
           /\ d_pos' = d_pos + 2
           /\ d_dict' = d_dict

(***************************************************************************)
(* C13.  A FixExt1/2/4 envelope whose type byte is not the reserved one    *)
(* fails with ExtensionTypeMismatch through both entry points; the         *)
(* interface-typed entry point returns it as a hard error: it does not put *)
(* the code byte back and does not call the generic decoder; the decode    *)
(* dictionary is unchanged.                                                *)
(***************************************************************************)
C13_ExtensionTypeMismatch == [][WrongTypeStep]_vars

\* after a literal was interned, the interface-typed entry point met a
\* 4-byte envelope of type 127
C13_Witness ==
    /\ Len(recv) = 2
    /\ Len(d_dict.tail) = 1
    /\ recv[2].fn = "interface"
    /\ recv[2].err = "ExtensionTypeMismatch"
    /\ wire[recv[2].at + 1] = FixExt4

InvalidCodeStep ==
    (/\ DecStep
     /\ Returned.fn = "string"
     /\ CodeAt(d_pos) # Nil
     /\ ~IsLiteralCode(CodeAt(d_pos))
     /\ CodeAt(d_pos) \notin {FixExt1, FixExt2, FixExt4})
        => /\ Returned.err = "InvalidCode"
           /\ ~Returned.set
           /\ Returned.gen = NoGen
           /\ d_pos' = d_pos + 1
           /\ d_dict' = d_dict

(***************************************************************************)
(* C14.  String-typed decode: when the code byte is neither nil, nor a     *)
(* literal string/binary code, nor FixExt1/2/4, decodeInternedStringValue  *)
(* fails with the error 'invalid code decoding interned string'; it does   *)
(* not put the byte back, does not call the generic decoder, does not set  *)
(* the target, and leaves the decode dictionary unchanged.                 *)
(***************************************************************************)
C14_InvalidCode == [][InvalidCodeStep]_vars

\* after a literal was interned, the string-typed entry point met the
\* integer 5
C14_Witness ==
    /\ Len(recv) = 2
    /\ Len(d_dict.tail) = 1
    /\ recv[2].fn = "string"
    /\ recv[2].err = "InvalidCode"
    /\ wire[recv[2].at + 1] = 5
    /\ d_pos = recv[2].at + 1

\* every value so far was decoded through the interface-typed entry point
AllInterface == \A k \in 1..Len(recv) : recv[k].fn = "interface"

\* every string offered came back as itself
StringsResolve ==
    \A k \in 1..Len(recv) :
        sent[k].v.k = "str"
            => recv[k].err = Ok /\ recv[k].set /\ recv[k].v = sent[k].v

NoBytesSent == \A k \in 1..Len(sent) : sent[k].v.k # "bin"

(***************************************************************************)
(* C15.  Lockstep through the interface-typed entry points: for any        *)
(* sequence of nil, strings and non-string values (integers, byte slices   *)
(* that the generic encoder writes as Bin8/16/32) encoded by               *)
(* encodeInternedInterfaceValue and decoded in order by                    *)
(* decodeInternedInterfaceValue, after each value the decode dictionary    *)
(* equals the encode dictionary, and every reference resolves to the       *)
(* string the encoder meant.                                               *)
(***************************************************************************)
C15_LockstepInterface ==
    (CaughtUp /\ AllInterface) => (DictsAgree /\ StringsResolve)

\* the same for sequences without byte slices
C15_LockstepNoBytes ==
    (CaughtUp /\ AllInterface /\ NoBytesSent) => (DictsAgree /\ StringsResolve)

\* a byte slice, then "abc" twice: the reference to "abc" came back as the
\* bytes of the slice
C15_Reached ==
    /\ Len(recv) = 3
    /\ AllInterface
    /\ sent[1].v = BinValue(<<1, 2, 3>>)
    /\ sent[2].v = StrValue(<<97, 98, 99>>)
    /\ sent[3].v = StrValue(<<97, 98, 99>>)
    /\ e_dict.fill = 0
    /\ recv[3].err = Ok
    /\ recv[3].v = StrValue(<<1, 2, 3>>)

\* the length of the header of the literal whose code byte is at position p
\* of the wire: the code byte and the bytes of the length
LitHeader(p) ==
    LET c == wire[p + 1]
    IN  IF IsFixedString(c) THEN 1
        ELSE IF c \in {Str8, Bin8} THEN 2
        ELSE IF c \in {Str16, Bin16} THEN 3
        ELSE 5

\* the length that header gives (below 2^16)
LitLen(p) ==
    LET c == wire[p + 1]
    IN  IF IsFixedString(c) THEN c - FixedStrLow
        ELSE IF c \in {Str8, Bin8} THEN wire[p + 2]
        ELSE IF c \in {Str16, Bin16} THEN wire[p + 2] * 256 + wire[p + 3]
        ELSE wire[p + 4] * 256 + wire[p + 5]

\* a complete literal, in any form, starts at position p of the wire
IsLitAt(p) ==
    /\ p < Len(wire)
    /\ IsLiteralCode(wire[p + 1])
    /\ p + LitHeader(p) <= Len(wire)
    /\ (wire[p + 1] \in {Str32, Bin32}) => (wire[p + 2] = 0 /\ wire[p + 3] = 0)
    /\ p + LitHeader(p) + LitLen(p) <= Len(wire)

LitAt(p) == SubSeq(wire, p + LitHeader(p) + 1, p + LitHeader(p) + LitLen(p))

\* the flag of the call of this step
Flag == Returned.fn # "plain"

DecodeEffectStep ==
    (DecStep /\ Returned.err = Ok)
        => /\ RefWidthAt(d_pos) # 0
                => /\ Returned.v = StrValue(DDictAt(d_dict, NatOf(RefValueAt(d_pos))))
                   /\ d_dict' = d_dict
           /\ IsLitAt(d_pos)
                => /\ Returned.v = StrValue(LitAt(d_pos))
                   /\ IF /\ Flag
                         /\ Len(LitAt(d_pos)) >= 3
                         /\ DDictLen(d_dict) < 65535
                      THEN /\ DDictLen(d_dict') = DDictLen(d_dict) + 1
                           /\ DDictAt(d_dict', DDictLen(d_dict)) = LitAt(d_pos)
                           /\ d_dict'.fill = d_dict.fill
                           /\ d_dict'.tail = Append(d_dict.tail, LitAt(d_pos))
                      ELSE d_dict' = d_dict

(***************************************************************************)
(* C16.  What a successful decode does to the decode dictionary.  A        *)
(* reference returns the string stored at its index and leaves the         *)
(* dictionary unchanged.  A literal appends exactly one entry, at the      *)
(* position equal to the previous size, iff the intern flag is set, the    *)
(* literal has 3 bytes or more and the dictionary holds fewer than 65,535  *)
(* entries; otherwise it appends nothing.                                  *)
(***************************************************************************)
C16_DecodeEffect == [][DecodeEffectStep]_vars

\* two literals were read with the flag set and appended, which filled the
\* dictionary, then one more was read with the flag set
C16_Witness ==
    /\ Len(recv) = 3
    /\ DDictLen(d_dict) = maxDictLen
    /\ Len(d_dict.tail) = 2
    /\ \A k \in 1..3 : recv[k].err = Ok /\ IsLitAt(recv[k].at)
                         /\ Len(recv[k].v.s) >= 3
    /\ \A k \in 1..3 : recv[k].fn = "intern"

\* the payload length of the envelope encodeInternedStringIndex chooses
WidthOf(idx) ==
    IF idx.hi = 0 /\ idx.lo <= 255 THEN 1 ELSE IF idx.hi = 0 THEN 2 ELSE 4

\* the call of the encoder whose envelope starts at position p of the wire
\* (0 when there is none)
CallAt(p) ==
    IF \E j \in 1..Len(marks) : marks[j] > p /\ (j = 1 \/ marks[j - 1] <= p)
    THEN CHOOSE j \in 1..Len(marks) : marks[j] > p /\ (j = 1 \/ marks[j - 1] <= p)
    ELSE 0

IndexRoundTripStep ==
    (DecStep /\ Returned.fn = "index")
        => /\ CallAt(d_pos) # 0
           /\ Returned.err = Ok
           /\ Returned.v.n = sent[CallAt(d_pos)].v.n
           /\ d_pos' = d_pos + 2 + WidthOf(sent[CallAt(d_pos)].v.n)
           /\ d_pos' = marks[CallAt(d_pos)]

OtherWidthStep ==
    (DecStep /\ Returned.fn = "ext")
        => /\ Returned.gen \notin {1, 2, 4}
           /\ Returned.err = "MalformedIndexWidth"
           /\ d_pos' = d_pos

(***************************************************************************)
(* C17.  Round trip of the index codec: for every idx in 0..4,294,967,295  *)
(* the payload written by encodeInternedStringIndex(idx), read by          *)
(* decodeInternedStringIndex at the payload length of the envelope chosen, *)
(* gives idx back and exactly that many bytes are consumed;                *)
(* decodeInternedStringIndex called with a length other than 1, 2 or 4     *)
(* fails with MalformedIndexWidth and consumes no byte.                    *)
(***************************************************************************)
C17_IndexRoundTrip == [][IndexRoundTripStep /\ OtherWidthStep]_vars

\* the same for a decoder whose int has 64 bits
C17_IndexRoundTrip64 ==
    [][intSize = 64 => (IndexRoundTripStep /\ OtherWidthStep)]_vars

\* the same for indices below 2^31
C17_IndexRoundTripBelow ==
    [][(\A k \in 1..Len(sent) : sent[k].v.n.hi < Limb \div 2)
          => (IndexRoundTripStep /\ OtherWidthStep)]_vars

\* 2^31 went through the codec and came back negative from a decoder whose
\* int has 32 bits
C17_Reached32 ==
    /\ intSize = 32
    /\ Len(recv) = 1
    /\ sent[1].v.n = [hi |-> Limb \div 2, lo |-> 0]
    /\ recv[1].fn = "index" /\ recv[1].err = Ok
    /\ recv[1].v.n = [hi |-> 0 - Limb \div 2, lo |-> 0]

NoIndexOutOfRange ==
    \A k \in 1..Len(recv) : recv[k].err \notin {"IndexOutOfRange", "panic"}

\* the decoder reads a reference in this step: its index is below the size
\* of d.dict, and the entry there is the string the encoder was given
ReferenceResolvesStep ==
    (DecStep /\ RefWidthAt(d_pos) # 0)
        => /\ RefValueAt(d_pos).hi = 0
           /\ RefValueAt(d_pos).lo < DDictLen(d_dict)
           /\ DDictAt(d_dict, RefValueAt(d_pos).lo) = sent[Len(recv) + 1].v.s
           /\ Returned.err = Ok
           /\ Returned.v = sent[Len(recv) + 1].v

(***************************************************************************)
(* C18.  On the stream one encoder, starting from an empty dictionary,     *)
(* writes through encodeInternedString(s, true), read in order by a        *)
(* decoder starting from an empty dictionary, the decoder never fails with *)
(* IndexOutOfRange: when a reference is read its index is below the        *)
(* current size of the decode dictionary, and the entry at that index is   *)
(* the string the encoder replaced by the reference.                       *)
(***************************************************************************)
C18_ReferencesInRange == []NoIndexOutOfRange /\ [][ReferenceResolvesStep]_vars

\* a reference to the last entry of the full dictionary was read
C18_Witness ==
    /\ Len(recv) >= 3
    /\ RefWidthAt(Last(recv).at) = 2
    /\ RefValueAt(Last(recv).at) = IntOf(maxDictLen - 1)
    /\ Last(recv).err = Ok
    /\ Len(d_dict.tail) = 2

ErrorStep == (DecStep /\ Returned.err # Ok) => d_dict' = d_dict

(***************************************************************************)
(* C19.  Every decode call that ends in an error (input cut short,         *)
(* ExtensionTypeMismatch, IndexOutOfRange, MalformedIndexWidth,            *)
(* UnexpectedCode) leaves the decode dictionary exactly as it was before   *)
(* the call.                                                               *)
(***************************************************************************)
C19_ErrorLeavesDictionary == [][ErrorStep]_vars

\* after a literal was interned, a literal of 3 bytes was cut short after
\* its first byte
C19_Witness ==
    /\ Len(recv) = 2
    /\ Len(d_dict.tail) = 1
    /\ recv[2].err \notin {Ok, "panic"}
    /\ wire[recv[2].at + 1] = FixedStrLow + 3
    /\ Len(wire) = recv[2].at + 2

\* every entry of e.dict made in this run has its literal on the wire
EntriesWereWritten ==
    \A s \in DOMAIN e_dict.m :
        \E k \in 1..Len(sent) : sent[k].v.s = s /\ IsLiteral(Frame(k), s)

FailedWriteStep == (EncStep /\ e_err' # Ok) => e_dict' = e_dict

(***************************************************************************)
(* C20.  Every entry of the encode dictionary corresponds to a literal     *)
(* that was written to the wire: when writing the literal of a first       *)
(* occurrence fails, encodeInternedString leaves the encode dictionary as  *)
(* it was before the call.                                                 *)
(***************************************************************************)
C20_EntryHasLiteral == []EntriesWereWritten /\ [][FailedWriteStep]_vars

\* the same as long as no write has failed
C20_EntryHasLiteralNoFailure ==
    (\A k \in 1..Len(sent) : Frame(k) # <<>>) => EntriesWereWritten

\* the write of the literal of "abc" failed, and the next call wrote "abc"
\* as a reference to index 0
C20_Reached ==
    /\ Len(sent) = 2
    /\ e_dict.fill = 0
    /\ sent[1].v = StrValue(<<97, 98, 99>>) /\ Frame(1) = <<>>
    /\ sent[2].v = StrValue(<<97, 98, 99>>) /\ IsRef(Frame(2), 0)
    /\ e_err = Ok

=============================================================================
